---- MODULE Spec2Model ----
(***************************************************************************)
(* Model of server.go: Server.Run starts the two Listener Tasks            *)
(* (httpServer, httpsServer) in an errgroup whose context gctx is derived  *)
(* from a signal.NotifyContext, starts a goroutine that waits on           *)
(* signalChan, and waits for the group.  Each Listener Task starts an      *)
(* accept-loop goroutine running ListenAndServe and selects on ctx.Done()  *)
(* and its errChan.                                                        *)
(***************************************************************************)
EXTENDS Integers, Sequences, FiniteSets, TLC

\* ---------------------------------------------------------------- bounds
\* Number of termination signals the environment may deliver in one run.
MaxSignals == 2
\* Number of connections (in flight + idle) one listener may hold at once.
MaxConns == 1

\* -------------------------------------------------------- program constants
\* Capacity of each listener's errChan, and of the channel on which
\* signal.NotifyContext receives the signals.
ErrChanCap == 1
NotifyChanCap == 1

\* The two Listener Tasks started by Run.
Tasks == {"http", "https"}

Other(t) == IF t = "http" THEN "https" ELSE "http"

\* Error values.  "nil" is the clean outcome, "canceled" is context.Canceled.
BindErr(t) == IF t = "http" THEN "bind_http" ELSE "bind_https"
AcceptErr(t) == IF t = "http" THEN "accept_http" ELSE "accept_https"
Errors == {"nil", "canceled"} \cup {BindErr(t) : t \in Tasks} \cup {AcceptErr(t) : t \in Tasks}

VARIABLES
    ctxCause,      \* NotifyContext ctx: "none" or the reason it was cancelled
    gctxCause,     \* errgroup context gctx (the scope the tasks share)
    cancelCount,   \* number of times gctx went from not-cancelled to cancelled, or changed reason
    gErr,          \* errgroup's recorded first error (g.err)
    runPc,         \* Run: "wait" (in g.Wait) or "done" (returned)
    result,        \* value returned by Run ("none" until it returns)
    tpc,           \* task: "select", "shutdown" (inside Shutdown), "returned"
    outcome,       \* task's returned error ("none" until it returns)
    exitPath,      \* which select branch the task took: "none", "cancel", "err"
    shutdownCalls, \* number of calls of httpServer.Shutdown by the task
    gpc,           \* accept-loop goroutine: "start","listen","track","serving","send","done"
    pendingErr,    \* error the goroutine is about to send on errChan
    bound,         \* the listening socket is bound (open)
    inShutdown,    \* http.Server.inShutdown
    errBuf,        \* errChan buffer
    errClosed,     \* errChan closed (deferred close ran)
    active,        \* connections with a request in flight
    idle,          \* idle keep-alive connections
    sigCount,      \* signals delivered so far
    ncBuf,         \* signals buffered in NotifyContext's channel (capacity 1)
    ncPc,          \* NotifyContext goroutine: "waiting" or "done"
    signalChan,    \* number of signals buffered in Run's signalChan
    watcherPc,     \* Run's goroutine: "blocked" on <-signalChan, or "done"
    panicked,      \* a goroutine panicked: the process is gone
    bindFailed,    \* history: the task's net.Listen failed
    acceptFailed,  \* history: the task's accept loop failed
    errResp,       \* what the caller of the last GET /error on the listener received
    rootAfterFault,\* a GET / on the listener got 200 after a GET /error was handled
    mainPc,        \* main: "run" (inside serv.Run or about to exit) or "exited"
    failOrder,     \* history: the task's listener failed "before" or "after" gctx was cancelled
    retOrder       \* history: tasks in the order they returned

vars == <<errResp, rootAfterFault, mainPc, failOrder, ctxCause, gctxCause, cancelCount, gErr, runPc, result, tpc, outcome, exitPath,
          shutdownCalls, gpc, pendingErr, bound, inShutdown, errBuf, errClosed, active, idle,
          sigCount, ncBuf, ncPc, signalChan, watcherPc, panicked, bindFailed, acceptFailed,
          retOrder>>

ctxVars == <<ctxCause, gctxCause, cancelCount, gErr>>
runVars == <<runPc, result>>
taskVars == <<tpc, outcome, exitPath, shutdownCalls, retOrder>>
goVars == <<gpc, pendingErr, bound, bindFailed, acceptFailed, failOrder>>
chanVars == <<errBuf, errClosed>>
connVars == <<active, idle>>
sigVars == <<sigCount, ncBuf, ncPc, signalChan, watcherPc>>
procVars == <<errResp, rootAfterFault, mainPc>>

\* ------------------------------------------------------------- helpers

\* Mutant of Cancel: a later cancellation takes effect again.
CancelOverwrite(cause, why) == why

\* context cancel: the first cancellation sets the reason, later ones are no-ops.
Cancel(cause, why) == IF cause = "none" THEN why ELSE cause

\* 1 when applying a cancel changes the context's state, else 0.
CancelDelta(cause, why) == IF Cancel(cause, why) # cause THEN 1 ELSE 0

\* Mutant of ErrOnce: the last non-nil error replaces the recorded one.
ErrOnceLast(cur, err) == IF err # "nil" THEN err ELSE cur

\* errgroup: errOnce keeps the first non-nil error returned by a g.Go function.
ErrOnce(cur, err) == IF cur = "nil" /\ err # "nil" THEN err ELSE cur

\* Whether a listener failure happens before or after the scope's cancellation.
FailedWhen(cause) == IF cause = "none" THEN "before" ELSE "after"

\* httpServer.Shutdown(ctx) with the already-cancelled ctx: nil when no
\* connection has a request in flight, else ctx.Err().
ShutdownResult(ctx, inflight) == IF inflight = 0 THEN "nil" ELSE IF ctx # "none" THEN "canceled" ELSE "blocked"

\* ----------------------------------------------------------------- Init
Init ==
    /\ ctxCause = "none"
    /\ gctxCause = "none"
    /\ cancelCount = 0
    /\ gErr = "nil"
    /\ runPc = "wait"
    /\ result = "none"
    /\ tpc = [t \in Tasks |-> "select"]
    /\ outcome = [t \in Tasks |-> "none"]
    /\ exitPath = [t \in Tasks |-> "none"]
    /\ shutdownCalls = [t \in Tasks |-> 0]
    /\ gpc = [t \in Tasks |-> "start"]
    /\ pendingErr = [t \in Tasks |-> "nil"]
    /\ bound = [t \in Tasks |-> FALSE]
    /\ inShutdown = [t \in Tasks |-> FALSE]
    /\ errBuf = [t \in Tasks |-> <<>>]
    /\ errClosed = [t \in Tasks |-> FALSE]
    /\ active = [t \in Tasks |-> 0]
    /\ idle = [t \in Tasks |-> 0]
    /\ sigCount = 0
    /\ ncBuf = 0
    /\ ncPc = "waiting"
    /\ signalChan = 0
    /\ watcherPc = "blocked"
    /\ panicked = FALSE
    /\ bindFailed = [t \in Tasks |-> FALSE]
    /\ acceptFailed = [t \in Tasks |-> FALSE]
    /\ failOrder = [t \in Tasks |-> "none"]
    /\ errResp = [t \in Tasks |-> "none"]
    /\ rootAfterFault = [t \in Tasks |-> FALSE]
    /\ mainPc = "run"
    /\ retOrder = <<>>


\* The process is running (no goroutine has panicked, main has not returned).
Alive == ~panicked /\ mainPc = "run"

\* ------------------------------------------------- signals (Run, 27-28, 39-43)

\* The OS delivers SIGINT/SIGTERM.  Only NotifyContext's channel is registered
\* for them; signalChan was never passed to signal.Notify, so nothing is ever
\* sent on it.  Delivery to a full channel drops the signal.  After Run's
\* deferred cancel the registration is gone (signal.Stop).
SignalDeliver ==
    /\ Alive
    /\ runPc = "wait"
    /\ sigCount < MaxSignals
    /\ sigCount' = sigCount + 1
    /\ ncBuf' = IF ncBuf < NotifyChanCap THEN ncBuf + 1 ELSE ncBuf
    /\ signalChan' = signalChan
    /\ UNCHANGED <<procVars, ncPc, watcherPc, ctxVars, runVars, taskVars, goVars, inShutdown,
                   chanVars, connVars, panicked>>

\* NotifyContext's goroutine receives the signal and cancels ctx; the
\* cancellation propagates to the derived gctx.
NcRecv ==
    /\ Alive
    /\ ncPc = "waiting"
    /\ ncBuf > 0
    /\ ncBuf' = ncBuf - 1
    /\ ncPc' = "done"
    /\ ctxCause' = Cancel(ctxCause, "signal")
    /\ gctxCause' = Cancel(gctxCause, "signal")
    /\ cancelCount' = cancelCount + CancelDelta(gctxCause, "signal")
    /\ UNCHANGED <<procVars, gErr, sigCount, signalChan, watcherPc, runVars, taskVars, goVars,
                   inShutdown, chanVars, connVars, panicked>>

\* NotifyContext's goroutine leaves through <-c.Done() once ctx is cancelled
\* by Run's deferred cancel.
NcExit ==
    /\ Alive
    /\ ncPc = "waiting"
    /\ ctxCause # "none"
    /\ ncPc' = "done"
    /\ UNCHANGED <<procVars, ncBuf, sigCount, signalChan, watcherPc, ctxVars, runVars, taskVars,
                   goVars, inShutdown, chanVars, connVars, panicked>>

\* The goroutine of lines 39-43 can proceed only when signalChan holds a value.
WatcherCanReceive == watcherPc = "blocked" /\ signalChan > 0

\* --------------------------------- accept-loop goroutine (72-78, 120-126)

\* ListenAndServe begins by checking srv.shuttingDown().
GoStart(t) ==
    /\ Alive
    /\ gpc[t] = "start"
    /\ gpc' = [gpc EXCEPT ![t] = IF inShutdown[t] THEN "done" ELSE "listen"]
    /\ UNCHANGED <<procVars, pendingErr, bound, bindFailed, acceptFailed, failOrder, ctxVars, runVars, taskVars,
                   inShutdown, chanVars, connVars, sigVars, panicked>>

\* net.Listen binds the address.
GoListenOk(t) ==
    /\ Alive
    /\ gpc[t] = "listen"
    /\ gpc' = [gpc EXCEPT ![t] = "track"]
    /\ bound' = [bound EXCEPT ![t] = TRUE]
    /\ UNCHANGED <<procVars, pendingErr, bindFailed, acceptFailed, failOrder, ctxVars, runVars, taskVars,
                   inShutdown, chanVars, connVars, sigVars, panicked>>

\* net.Listen fails (address in use, permission denied): ListenAndServe
\* returns the error, which is not ErrServerClosed.
GoListenFail(t) ==
    /\ Alive
    /\ gpc[t] = "listen"
    /\ gpc' = [gpc EXCEPT ![t] = "send"]
    /\ pendingErr' = [pendingErr EXCEPT ![t] = BindErr(t)]
    /\ bindFailed' = [bindFailed EXCEPT ![t] = TRUE]
    /\ failOrder' = [failOrder EXCEPT ![t] = FailedWhen(gctxCause)]
    /\ UNCHANGED <<procVars, bound, acceptFailed, ctxVars, runVars, taskVars, inShutdown, chanVars,
                   connVars, sigVars, panicked>>

\* Mutant of GoTrack: Serve starts accepting without looking at inShutdown.
GoTrackNoCheck(t) ==
    /\ Alive
    /\ gpc[t] = "track"
    /\ gpc' = [gpc EXCEPT ![t] = "serving"]
    /\ UNCHANGED <<procVars, pendingErr, bound, bindFailed, acceptFailed, failOrder, ctxVars, runVars, taskVars,
                   inShutdown, chanVars, connVars, sigVars, panicked>>

\* Serve registers the listener (trackListener); if the server is already
\* shutting down it closes the listener and returns ErrServerClosed.
GoTrack(t) ==
    /\ Alive
    /\ gpc[t] = "track"
    /\ IF inShutdown[t]
         THEN /\ gpc' = [gpc EXCEPT ![t] = "done"]
              /\ bound' = [bound EXCEPT ![t] = FALSE]
         ELSE /\ gpc' = [gpc EXCEPT ![t] = "serving"]
              /\ bound' = bound
    /\ UNCHANGED <<procVars, pendingErr, bindFailed, acceptFailed, failOrder, ctxVars, runVars, taskVars,
                   inShutdown, chanVars, connVars, sigVars, panicked>>

\* Accept fails while serving: Serve closes the listener and returns the error.
GoAcceptFail(t) ==
    /\ Alive
    /\ gpc[t] = "serving"
    /\ ~inShutdown[t]
    /\ gpc' = [gpc EXCEPT ![t] = "send"]
    /\ pendingErr' = [pendingErr EXCEPT ![t] = AcceptErr(t)]
    /\ acceptFailed' = [acceptFailed EXCEPT ![t] = TRUE]
    /\ failOrder' = [failOrder EXCEPT ![t] = FailedWhen(gctxCause)]
    /\ bound' = [bound EXCEPT ![t] = FALSE]
    /\ UNCHANGED <<procVars, bindFailed, ctxVars, runVars, taskVars, inShutdown, chanVars, connVars,
                   sigVars, panicked>>

\* Shutdown closed the listener: Serve returns ErrServerClosed, which the
\* goroutine does not send.
GoServeClosed(t) ==
    /\ Alive
    /\ gpc[t] = "serving"
    /\ inShutdown[t]
    /\ gpc' = [gpc EXCEPT ![t] = "done"]
    /\ UNCHANGED <<procVars, pendingErr, bound, bindFailed, acceptFailed, failOrder, ctxVars, runVars, taskVars,
                   inShutdown, chanVars, connVars, sigVars, panicked>>

\* errChan <- err.  A send on a closed channel panics.
GoSend(t) ==
    /\ Alive
    /\ gpc[t] = "send"
    /\ IF errClosed[t]
         THEN /\ panicked' = TRUE
              /\ UNCHANGED <<gpc, errBuf>>
         ELSE /\ Len(errBuf[t]) < ErrChanCap
              /\ errBuf' = [errBuf EXCEPT ![t] = Append(@, pendingErr[t])]
              /\ gpc' = [gpc EXCEPT ![t] = "done"]
              /\ UNCHANGED panicked
    /\ UNCHANGED <<procVars, errClosed, pendingErr, bound, bindFailed, acceptFailed, failOrder, ctxVars, runVars,
                   taskVars, inShutdown, connVars, sigVars>>

\* ------------------------------------------- Listener Task (69-87, 117-135)

\* The task function returns err: the deferred close(errChan) runs, and the
\* errgroup records the first non-nil error and cancels gctx with it.
TaskReturns(t, err, path) ==
    /\ tpc' = [tpc EXCEPT ![t] = "returned"]
    /\ outcome' = [outcome EXCEPT ![t] = err]
    /\ exitPath' = [exitPath EXCEPT ![t] = path]
    /\ retOrder' = Append(retOrder, t)
    /\ errClosed' = [errClosed EXCEPT ![t] = TRUE]
    /\ gErr' = ErrOnce(gErr, err)
    /\ IF gErr = "nil" /\ err # "nil"
         THEN /\ gctxCause' = Cancel(gctxCause, "error")
              /\ cancelCount' = cancelCount + CancelDelta(gctxCause, "error")
         ELSE UNCHANGED <<gctxCause, cancelCount>>
    /\ UNCHANGED ctxCause

\* case <-ctx.Done(): SetKeepAlivesEnabled(false) and the entry of Shutdown:
\* inShutdown is set, the registered listener and the idle connections are closed.
TaskCancel(t) ==
    /\ Alive
    /\ tpc[t] = "select"
    /\ gctxCause # "none"
    /\ tpc' = [tpc EXCEPT ![t] = "shutdown"]
    /\ exitPath' = [exitPath EXCEPT ![t] = "cancel"]
    /\ shutdownCalls' = [shutdownCalls EXCEPT ![t] = @ + 1]
    /\ inShutdown' = [inShutdown EXCEPT ![t] = TRUE]
    /\ bound' = [bound EXCEPT ![t] = IF gpc[t] = "serving" THEN FALSE ELSE @]
    /\ idle' = [idle EXCEPT ![t] = 0]
    /\ UNCHANGED <<procVars, outcome, retOrder, gpc, pendingErr, bindFailed, acceptFailed, failOrder, active,
                   ctxVars, runVars, chanVars, sigVars, panicked>>

\* Shutdown(ctx) returns: nil if no request is in flight, else ctx.Err(),
\* since ctx is already cancelled.  The connections in flight stay open.
TaskShutdownReturn(t) ==
    /\ Alive
    /\ tpc[t] = "shutdown"
    /\ ShutdownResult(gctxCause, active[t]) # "blocked"
    /\ TaskReturns(t, ShutdownResult(gctxCause, active[t]), "cancel")
    /\ idle' = [idle EXCEPT ![t] = 0]
    /\ UNCHANGED <<procVars, shutdownCalls, errBuf, active, goVars, inShutdown, runVars, sigVars,
                   panicked>>

\* Mutant of TaskErr: the received error is dropped and nil is returned.
TaskErrSwallow(t) ==
    /\ Alive
    /\ tpc[t] = "select"
    /\ Len(errBuf[t]) > 0
    /\ errBuf' = [errBuf EXCEPT ![t] = Tail(@)]
    /\ TaskReturns(t, "nil", "err")
    /\ UNCHANGED <<procVars, shutdownCalls, goVars, inShutdown, connVars, runVars, sigVars, panicked>>

\* case err := <-errChan: return err.
TaskErr(t) ==
    /\ Alive
    /\ tpc[t] = "select"
    /\ Len(errBuf[t]) > 0
    /\ errBuf' = [errBuf EXCEPT ![t] = Tail(@)]
    /\ TaskReturns(t, Head(errBuf[t]), "err")
    /\ UNCHANGED <<procVars, shutdownCalls, goVars, inShutdown, connVars, runVars, sigVars, panicked>>

\* ------------------------------------------------------------ Run (46-52)

\* Mutant of RunReturn: the wait ends as soon as one task has returned.
RunReturnEarly ==
    /\ Alive
    /\ runPc = "wait"
    /\ \E t \in Tasks : tpc[t] = "returned"
    /\ runPc' = "done"
    /\ result' = gErr
    /\ gctxCause' = Cancel(gctxCause, "wait")
    /\ cancelCount' = cancelCount + CancelDelta(gctxCause, "wait")
    /\ ctxCause' = Cancel(ctxCause, "deferred")
    /\ UNCHANGED <<procVars, gErr, taskVars, goVars, inShutdown, chanVars, connVars, sigVars, panicked>>

\* g.Wait() returns once both tasks returned; it cancels gctx and yields
\* g.err.  Run returns it and the deferred cancel() cancels ctx.
RunReturn ==
    /\ Alive
    /\ runPc = "wait"
    /\ \A t \in Tasks : tpc[t] = "returned"
    /\ runPc' = "done"
    /\ result' = gErr
    /\ gctxCause' = Cancel(gctxCause, "wait")
    /\ cancelCount' = cancelCount + CancelDelta(gctxCause, "wait")
    /\ ctxCause' = Cancel(ctxCause, "deferred")
    /\ UNCHANGED <<procVars, gErr, taskVars, goVars, inShutdown, chanVars, connVars, sigVars, panicked>>

\* --------------------------------------------------- connections (handlers)

\* A client sends a request on a new or on an idle connection.
ReqArrive(t) ==
    /\ Alive
    /\ gpc[t] = "serving"
    /\ bound[t]
    /\ ~inShutdown[t]
    /\ \/ /\ active[t] + idle[t] < MaxConns
          /\ active' = [active EXCEPT ![t] = @ + 1]
          /\ idle' = idle
       \/ /\ idle[t] > 0
          /\ active' = [active EXCEPT ![t] = @ + 1]
          /\ idle' = [idle EXCEPT ![t] = @ - 1]
    /\ UNCHANGED <<procVars, ctxVars, runVars, taskVars, goVars, inShutdown, chanVars, sigVars, panicked>>

\* A handler finishes its request: the connection becomes idle, or is closed
\* (always closed once the server is shutting down).
ReqComplete(t) ==
    /\ Alive
    /\ active[t] > 0
    /\ active' = [active EXCEPT ![t] = @ - 1]
    /\ \/ /\ ~inShutdown[t]
          /\ idle' = [idle EXCEPT ![t] = @ + 1]
       \/ idle' = idle
    /\ UNCHANGED <<procVars, ctxVars, runVars, taskVars, goVars, inShutdown, chanVars, sigVars, panicked>>

\* An idle connection is closed (idle timeout, or by the client).
IdleClose(t) ==
    /\ Alive
    /\ idle[t] > 0
    /\ idle' = [idle EXCEPT ![t] = @ - 1]
    /\ UNCHANGED <<procVars, active, ctxVars, runVars, taskVars, goVars, inShutdown, chanVars, sigVars,
                   panicked>>

\* ----------------------------------------------------------------- Next
Next ==
    \/ SignalDeliver
    \/ NcRecv
    \/ NcExit
    \/ RunReturn
    \/ \E t \in Tasks : GoStart(t)
    \/ \E t \in Tasks : GoListenOk(t)
    \/ \E t \in Tasks : GoListenFail(t)
    \/ \E t \in Tasks : GoTrack(t)
    \/ \E t \in Tasks : GoAcceptFail(t)
    \/ \E t \in Tasks : GoServeClosed(t)
    \/ \E t \in Tasks : GoSend(t)
    \/ \E t \in Tasks : TaskCancel(t)
    \/ \E t \in Tasks : TaskShutdownReturn(t)
    \/ \E t \in Tasks : TaskErr(t)
    \/ \E t \in Tasks : ReqArrive(t)
    \/ \E t \in Tasks : ReqComplete(t)
    \/ \E t \in Tasks : IdleClose(t)

Spec == Init /\ [][Next]_vars

\* The Go scheduler runs every runnable goroutine: each program step that
\* stays enabled is eventually taken.  Signals, client requests, handler
\* completion and listener failures are the environment's choice.
Fairness ==
    /\ WF_vars(NcRecv)
    /\ WF_vars(NcExit)
    /\ WF_vars(RunReturn)
    /\ \A t \in Tasks :
        /\ WF_vars(GoStart(t))
        /\ WF_vars(GoListenOk(t) \/ GoListenFail(t))
        /\ WF_vars(GoTrack(t))
        /\ WF_vars(GoServeClosed(t))
        /\ WF_vars(GoSend(t))
        /\ WF_vars(TaskCancel(t))
        /\ WF_vars(TaskErr(t))
        /\ WF_vars(TaskShutdownReturn(t))

FairSpec == Spec /\ Fairness

TypeOK ==
    /\ ctxCause \in {"none", "signal", "deferred"}
    /\ gctxCause \in {"none", "signal", "error", "wait"}
    /\ gErr \in Errors
    /\ runPc \in {"wait", "done"}
    /\ result \in Errors \cup {"none"}
    /\ \A t \in Tasks :
        /\ tpc[t] \in {"select", "shutdown", "returned"}
        /\ outcome[t] \in Errors \cup {"none"}
        /\ gpc[t] \in {"start", "listen", "track", "serving", "send", "done"}
        /\ Len(errBuf[t]) <= ErrChanCap
        /\ active[t] + idle[t] <= MaxConns
    /\ ncBuf \in 0..NotifyChanCap
    /\ sigCount \in 0..MaxSignals
    /\ mainPc \in {"run", "exited"}
    /\ \A t \in Tasks :
        /\ failOrder[t] \in {"none", "before", "after"}
        /\ errResp[t] \in {"none", "aborted", "200"}
        /\ rootAfterFault[t] \in BOOLEAN


\* ------------------------------------------------------------ properties

\* No listener's bind or accept has failed.
NoListenerFailed == \A t \in Tasks : ~bindFailed[t] /\ ~acceptFailed[t]

\* C1: when Run has returned in a run where no listener's bind/accept failed
\* and a termination signal was delivered, Run returned nil and every
\* Listener Task returned a clean outcome, requests in flight or not.
C1_SignalRunReturnsNil ==
    (runPc = "done" /\ sigCount > 0 /\ NoListenerFailed)
        => (result = "nil" /\ \A t \in Tasks : outcome[t] = "nil")

\* C3: a Listener Task that left through its cancellation branch returned nil.
C3_CancelBranchIsClean ==
    \A t \in Tasks : (tpc[t] = "returned" /\ exitPath[t] = "cancel") => outcome[t] = "nil"

\* C5: a Listener Task that returned after cancellation has no open connection.
C5_NoConnectionOpenAtStopped ==
    \A t \in Tasks :
        (tpc[t] = "returned" /\ exitPath[t] = "cancel") => (active[t] = 0 /\ idle[t] = 0)

\* C4: a Listener Task that entered its shutdown procedure eventually returns.
C4_ShutdownReturns ==
    \A t \in Tasks : (tpc[t] = "shutdown") ~> (tpc[t] = "returned")

\* C9: once the scope is cancelled, a Listener Task still waiting in its
\* select eventually leaves it.
C9_CancelReachesEveryTask ==
    \A t \in Tasks : (gctxCause # "none" /\ tpc[t] = "select") ~> (tpc[t] # "select")

\* C10: once a delivered termination signal has cancelled the scope, the
\* goroutine Run started on signalChan has received it.
C10_WatcherReceivesSignal ==
    (sigCount > 0 /\ ctxCause = "signal") => watcherPc = "done"


\* The outcome of the first task, in order of return, that returned a
\* non-clean outcome; "nil" if no task has.
FirstNonClean ==
    LET bad == {i \in 1..Len(retOrder) : outcome[retOrder[i]] # "nil"}
    IN  IF bad = {} THEN "nil"
        ELSE outcome[retOrder[CHOOSE i \in bad : \A j \in bad : i <= j]]

\* C6: Run has a result only once it has returned, and the result is nil if
\* every Listener Task returned nil and otherwise the error of the first task
\* that returned a non-clean outcome; the group's recorded error is that
\* error throughout, so a later non-clean outcome never replaces it.
C6_AggregateIsFirstNonClean ==
    /\ gErr = FirstNonClean
    /\ runPc = "wait" => result = "none"
    /\ runPc = "done" => result = FirstNonClean

\* C6 witness: both tasks returned different non-clean outcomes and Run
\* returned the first one.
C6_Witness ==
    /\ runPc = "done"
    /\ Len(retOrder) = 2
    /\ outcome[retOrder[1]] # "nil"
    /\ outcome[retOrder[2]] # "nil"
    /\ outcome[retOrder[1]] # outcome[retOrder[2]]
    /\ result = outcome[retOrder[1]]

\* C7: once cancelled, the scope gctx (and its parent ctx) keeps its
\* cancelled state and reason in every step, and it changes from
\* not-cancelled to cancelled at most once.
C7_CancelMonotonicOneShot ==
    [][/\ gctxCause # "none" => gctxCause' = gctxCause
       /\ ctxCause # "none" => ctxCause' = ctxCause
       /\ cancelCount' <= 1]_vars

\* C7 witness: the scope was cancelled by a signal, a second signal was
\* delivered, a task returned an error and Run returned with its own cancels.
C7_Witness ==
    /\ runPc = "done"
    /\ gctxCause = "signal"
    /\ sigCount >= 2
    /\ gErr # "nil"
    /\ cancelCount = 1

\* The termination signal was delivered twice or more, or after a listener
\* failure had already cancelled the scope.
SignalRepeated == sigCount >= 2 \/ (sigCount >= 1 /\ gctxCause = "error")

\* C8: when the signal is delivered repeatedly, or after a failure already
\* cancelled the scope, each Listener Task has run its shutdown procedure at
\* most once and the process has not panicked.
C8_RepeatedSignalHarmless ==
    SignalRepeated => (~panicked /\ \A t \in Tasks : shutdownCalls[t] <= 1)

\* Delivering a signal when one was already delivered, or when the scope is
\* already cancelled, changes nothing but the count of signals and the
\* content of NotifyContext's channel; no task calls Shutdown twice.
SignalRedeliveryIsNoOp ==
    [][/\ (sigCount' > sigCount /\ (sigCount >= 1 \/ gctxCause # "none"))
            => UNCHANGED <<ctxVars, runVars, taskVars, goVars, inShutdown, chanVars,
                           connVars, ncPc, signalChan, watcherPc, panicked>>
       /\ \A t \in Tasks : shutdownCalls'[t] <= 1]_vars

\* Task t's bind failed and it is the only listener failure of the run.
OnlyBindFailure(t) ==
    /\ bindFailed[t]
    /\ ~bindFailed[Other(t)]
    /\ \A u \in Tasks : ~acceptFailed[u]

\* C2: when exactly one Listener Task failed to bind, the scope of the other
\* task was cancelled by that failure, the other task returned, and Run
\* returned exactly the bind error.
C2_OneBindFailure ==
    \A t \in Tasks :
        (runPc = "done" /\ OnlyBindFailure(t))
            => /\ result = BindErr(t)
               /\ gctxCause # "none"
               /\ tpc[Other(t)] = "returned"

\* C2 as amended: the same, provided no termination signal cancelled the
\* scope before the failure did; and then Run does return.
C2_OneBindFailureNoSignal ==
    /\ [](\A t \in Tasks :
            (runPc = "done" /\ OnlyBindFailure(t) /\ gctxCause # "signal")
                => /\ result = BindErr(t)
                   /\ outcome[t] = BindErr(t)
                   /\ gctxCause = "error"
                   /\ tpc[Other(t)] = "returned"
                   /\ exitPath[Other(t)] = "cancel")
    /\ \A t \in Tasks :
            (OnlyBindFailure(t) /\ gctxCause # "signal")
                ~> (runPc = "done" \/ ~OnlyBindFailure(t) \/ gctxCause = "signal")

\* C2 witness: http failed to bind, https was serving a request when the
\* failure cancelled the scope, and Run returned.
C2_Witness ==
    /\ runPc = "done"
    /\ OnlyBindFailure("http")
    /\ gctxCause = "error"
    /\ outcome["https"] = "canceled"
    /\ result = BindErr("http")


\* Supporting lemmas (FairSpec): while the process is alive a task in its
\* shutdown procedure returns, and a cancelled scope makes every waiting
\* task leave its select; only a panic of the process prevents either.
ShutdownReturnsUnlessPanic ==
    \A t \in Tasks : (tpc[t] = "shutdown") ~> (tpc[t] = "returned" \/ panicked)

CancelReachesUnlessPanic ==
    \A t \in Tasks :
        (gctxCause # "none" /\ tpc[t] = "select") ~> (tpc[t] # "select" \/ panicked)


\* C11: whenever Run has returned, both Listener Tasks have returned their
\* outcome.
C11_RunReturnsAfterTasks ==
    runPc = "done" => \A t \in Tasks : tpc[t] = "returned" /\ outcome[t] # "none"

\* C11 witness: Run returned after one task failed and the other shut down.
C11_Witness ==
    /\ runPc = "done"
    /\ \E t \in Tasks : exitPath[t] = "err" /\ exitPath[Other(t)] = "cancel"

\* C14: a Listener Task that has returned holds no bound listening socket.
C14_SocketClosedAfterReturn ==
    \A t \in Tasks : tpc[t] = "returned" => ~bound[t]

\* C17: no accept-loop goroutine sends on its errChan after the task's
\* deferred close(errChan) ran, so the process never panics.
C17_NoSendOnClosedErrChan ==
    \A t \in Tasks : ~(panicked /\ gpc[t] = "send" /\ errClosed[t])

\* C18: once Run has returned, the signal-watcher goroutine, NotifyContext's
\* goroutine and both accept-loop goroutines eventually have all terminated.
C18_NoGoroutineOutlivesRun ==
    (runPc = "done")
        ~> (watcherPc = "done" /\ ncPc = "done" /\ \A t \in Tasks : gpc[t] = "done")

\* Supporting lemma (FairSpec): after Run returned, every goroutine other
\* than the signal watcher terminates unless the process panics.
OtherGoroutinesEnd ==
    (runPc = "done") ~> (panicked \/ (ncPc = "done" /\ \A t \in Tasks : gpc[t] = "done"))


\* The Listener Task's state in the spec's state machine.  A failure the
\* task has not yet received from errChan leaves it in the state it had.
TaskState(t) ==
    IF tpc[t] = "returned" THEN (IF exitPath[t] = "err" THEN "Failed" ELSE "Stopped")
    ELSE IF tpc[t] = "shutdown" THEN "ShuttingDown"
    ELSE IF gpc[t] = "serving" \/ acceptFailed[t] THEN "Serving"
    ELSE "Starting"

StateRank(st) ==
    CASE st = "Starting" -> 0
      [] st = "Serving" -> 1
      [] st = "ShuttingDown" -> 2
      [] st = "Stopped" -> 3
      [] st = "Failed" -> 3

\* The listener accepts connections.
Accepting(t) == gpc[t] = "serving" /\ bound[t]

\* C16: in every step a Listener Task stays where it is or moves forward
\* along Starting, Serving, ShuttingDown, Stopped, or to Failed; Stopped and
\* Failed are never left; the goroutine never comes back to net.Listen once
\* it has left it (a single bind attempt, no retry); and a task that is
\* ShuttingDown, Stopped or Failed is not accepting connections.
C16_TaskStateMachine ==
    [][\A t \in Tasks :
        /\ StateRank(TaskState(t)') >= StateRank(TaskState(t))
        /\ TaskState(t) \in {"Stopped", "Failed"} => TaskState(t)' = TaskState(t)
        /\ (TaskState(t) = "ShuttingDown" /\ TaskState(t)' # "ShuttingDown")
                => TaskState(t)' = "Stopped"
        /\ gpc[t] \notin {"start", "listen"} => gpc'[t] \notin {"start", "listen"}
        /\ TaskState(t)' \in {"ShuttingDown", "Stopped", "Failed"} => ~Accepting(t)'
      ]_vars

\* C16 witness: one task served a request and was stopped by cancellation,
\* the other failed to bind and never bound.
C16_Witness ==
    \E t \in Tasks :
        /\ TaskState(t) = "Stopped" /\ active[t] > 0
        /\ TaskState(Other(t)) = "Failed" /\ bindFailed[Other(t)] /\ gpc[Other(t)] = "done"


\* C15: a returned Listener Task whose own bind/accept failure happened
\* before the scope was cancelled returned that error through the errChan
\* branch, and one whose failure happened only after the cancellation left
\* through the shutdown branch.
C15_FirstEventDecidesExit ==
    \A t \in Tasks :
        tpc[t] = "returned" =>
            /\ failOrder[t] = "before" => (exitPath[t] = "err" /\ outcome[t] = pendingErr[t])
            /\ failOrder[t] = "after" => exitPath[t] = "cancel"

\* The first half of C15 alone: a failure that precedes the cancellation is
\* what the task returns.
FailureBeforeCancelIsReturned ==
    \A t \in Tasks :
        (tpc[t] = "returned" /\ failOrder[t] = "before")
            => (exitPath[t] = "err" /\ outcome[t] = pendingErr[t])


\* ------------------------------------------------ handlers (56-59, 106-108)

\* Request paths of the model.
Paths == {"/", "/error"}

\* The handler the listener's mux selects for GET path: httpServer registers
\* "GET /" and "GET /error"; httpsServer registers only "GET /", which
\* matches every path.
Route(t, path) == IF t = "http" /\ path = "/error" THEN "errorHandler" ELSE "httpHandler"

\* What the caller receives: httpHandler writes the greeting (200);
\* errorHandler panics, net/http recovers the panic in the connection's
\* goroutine and closes the connection without writing a response.
HandlerResponse(h) == IF h = "errorHandler" THEN "aborted" ELSE "200"

\* A client sends GET path to listener t and the handler runs to its end.
\* After a panic the connection is closed; otherwise it is kept idle.
HandleRequest(t, path) ==
    /\ Alive
    /\ gpc[t] = "serving"
    /\ bound[t]
    /\ ~inShutdown[t]
    /\ \E reuse \in BOOLEAN :
        /\ IF reuse THEN idle[t] > 0 ELSE active[t] + idle[t] < MaxConns
        /\ idle' = [idle EXCEPT ![t] =
                       IF HandlerResponse(Route(t, path)) = "aborted"
                         THEN (IF reuse THEN @ - 1 ELSE @)
                         ELSE (IF reuse THEN @ ELSE @ + 1)]
    /\ errResp' = [errResp EXCEPT ![t] =
                       IF path = "/error" THEN HandlerResponse(Route(t, path)) ELSE @]
    /\ rootAfterFault' = [rootAfterFault EXCEPT ![t] =
                       @ \/ (path = "/" /\ errResp[t] # "none"
                                /\ HandlerResponse(Route(t, path)) = "200")]
    /\ UNCHANGED <<mainPc, active, ctxVars, runVars, taskVars, goVars, inShutdown, chanVars,
                   sigVars, panicked>>

\* The listeners with clients that also send GET / and GET /error.
HandlerSpec == Init /\ [][Next \/ \E t \in Tasks, path \in Paths : HandleRequest(t, path)]_vars

\* C12: the caller of a GET /error on a listener receives an error status
\* response, the listener keeps serving and the process has not crashed
\* because of it.
C12_FaultGetsErrorStatus ==
    \A t \in Tasks : errResp[t] # "none" => errResp[t] = "500"

\* Supporting lemma (HandlerSpec): handling a request, faulting or not,
\* changes nothing of the listener, the tasks, the scope, Run or the process.
RequestLeavesServerAlone ==
    [][(errResp' # errResp \/ rootAfterFault' # rootAfterFault)
          => UNCHANGED <<ctxVars, runVars, taskVars, goVars, inShutdown, chanVars, sigVars,
                         panicked, active, mainPc>>]_vars

\* Supporting lemma (HandlerSpec, to be found violated): no GET / succeeds
\* on a listener after a GET /error was handled there.
NoRootAfterFault == \A t \in Tasks : ~rootAfterFault[t]

\* ------------------------------------------------------ main (part_000 9-16)

\* main returns after Run returned, or calls os.Exit(1) on an error.
MainExit ==
    /\ Alive
    /\ runPc = "done"
    /\ mainPc' = "exited"
    /\ UNCHANGED <<errResp, rootAfterFault, ctxVars, runVars, taskVars, goVars, inShutdown,
                   chanVars, connVars, sigVars, panicked>>

\* The process's exit status: -1 while it runs, 2 after an unrecovered
\* panic, else 1 if Run returned an error and 0 if it returned nil.
ExitStatus ==
    IF panicked THEN 2
    ELSE IF mainPc = "exited" THEN (IF result # "nil" THEN 1 ELSE 0)
    ELSE -1

\* Run called from main.
MainSpec == Init /\ [][Next \/ MainExit]_vars

\* C13: once the process has exited, its exit status is non-zero exactly
\* when Run returned an error.
C13_ExitStatusIffRunError ==
    ExitStatus # -1 => ((ExitStatus # 0) <=> (runPc = "done" /\ result # "nil"))

\* Supporting lemma (MainSpec): when main itself ends the process, the
\* status is 1 after an error of Run and 0 after nil.
MainExitStatus ==
    mainPc = "exited" =>
        /\ runPc = "done"
        /\ result # "nil" => ExitStatus = 1
        /\ result = "nil" => ExitStatus = 0

====
